---- MODULE Spec2Model ----
(***************************************************************************)
(* Model of sf::Shader (src/src/SFML/Graphics/Shader.cpp, desktop OpenGL   *)
(* branch): one Shader instance, the process-wide capability flags and     *)
(* texture-unit limit, and the part of the OpenGL object model the class   *)
(* talks to (program objects, current program, texture units).             *)
(*                                                                         *)
(* Every public member function is one action.  The OpenGL calls and the   *)
(* err() lines a call issues are recorded, in program order, in glLog,     *)
(* which holds the calls of the most recent public operation only.         *)
(***************************************************************************)
EXTENDS Integers, Sequences, FiniteSets, TLC

(***************************************************************************)
(* Bounds of the model.                                                    *)
(***************************************************************************)
\* program object names the backend hands out are 1..MaxProgramId
MaxProgramId == 2
\* the backend's GL_MAX_COMBINED_TEXTURE_IMAGE_UNITS is drawn from 0..MaxTextureUnits
MaxTextureUnits == 3
\* the threads of the process that call into the class are 1..MaxThreads
MaxThreads == 2

\* the uniform names callers pass, and the textures they own
Names == {"u1", "u2"}
Textures == {"texA", "texB"}
ProgramIds == 1..MaxProgramId
Stages == {"vertex", "geometry", "fragment"}

\* a stage source as the backend sees it: absent (NULL), compiles, fails
NoCode == "NULL"
GoodCode == "compiles"
BadCode == "fails"
Codes == {NoCode, GoodCode, BadCode}

\* the location -1 of a uniform that is not found, and of the unset sentinel
NotFound == -1

VARIABLES
    \* ---- members of sf::Shader
    m_shaderProgram,    \* unsigned int, 0 = no program
    m_currentTexture,   \* int, -1 = none
    m_textures,         \* std::map<int, const Texture*>: location -> texture
    m_params,           \* std::map<std::string, int>: name -> location
    \* ---- file-scope statics of Shader.cpp
    available,          \* static local of isAvailable: [init, value]
    vertexShaderAvailable,
    fragmentShaderAvailable,
    geometryShaderAvailable,
    maxUnits,           \* static local of getMaxTextureUnits: [init, value]
    mutex,              \* sf::Mutex mutex: the thread that holds it, 0 = unlocked
    \* ---- the threads inside isAvailable and getMaxTextureUnits
    threads,            \* thread -> [fn, pc, shaderTypes, ret, units]
    \* ---- the rendering backend
    glExtensions,       \* [basic, geometry]: what the context supports
    glMaxCombined,      \* GL_MAX_COMBINED_TEXTURE_IMAGE_UNITS
    glObjects,          \* program name -> [status, linked, uniforms]
    glCurrentProgram,   \* GL_PROGRAM_OBJECT
    glActiveTexture,    \* active texture unit
    glTextureUnits,     \* unit -> texture bound to it, or "none"
    \* ---- the most recent public call
    call,               \* its name and arguments
    ret,                \* its return value (TRUE for void functions)
    glLog               \* the backend calls and err() lines it issued, in order

vars == <<m_shaderProgram, m_currentTexture, m_textures, m_params,
          available, vertexShaderAvailable, fragmentShaderAvailable,
          geometryShaderAvailable, maxUnits, mutex, threads,
          glExtensions, glMaxCombined, glObjects, glCurrentProgram,
          glActiveTexture, glTextureUnits, call, ret, glLog>>

(***************************************************************************)
(* The whole state as one record, so that a member function is an operator *)
(* from state to state and calls compose as they do in the code.           *)
(***************************************************************************)
State ==
    [m_shaderProgram |-> m_shaderProgram, m_currentTexture |-> m_currentTexture,
     m_textures |-> m_textures, m_params |-> m_params,
     available |-> available, vertexShaderAvailable |-> vertexShaderAvailable,
     fragmentShaderAvailable |-> fragmentShaderAvailable,
     geometryShaderAvailable |-> geometryShaderAvailable, maxUnits |-> maxUnits,
     mutex |-> mutex, threads |-> threads,
     glExtensions |-> glExtensions, glMaxCombined |-> glMaxCombined,
     glObjects |-> glObjects, glCurrentProgram |-> glCurrentProgram,
     glActiveTexture |-> glActiveTexture, glTextureUnits |-> glTextureUnits,
     call |-> call, ret |-> ret, glLog |-> glLog]

Becomes(s) ==
    /\ m_shaderProgram' = s.m_shaderProgram
    /\ m_currentTexture' = s.m_currentTexture
    /\ m_textures' = s.m_textures
    /\ m_params' = s.m_params
    /\ available' = s.available
    /\ vertexShaderAvailable' = s.vertexShaderAvailable
    /\ fragmentShaderAvailable' = s.fragmentShaderAvailable
    /\ geometryShaderAvailable' = s.geometryShaderAvailable
    /\ maxUnits' = s.maxUnits
    /\ mutex' = s.mutex
    /\ threads' = s.threads
    /\ glExtensions' = s.glExtensions
    /\ glMaxCombined' = s.glMaxCombined
    /\ glObjects' = s.glObjects
    /\ glCurrentProgram' = s.glCurrentProgram
    /\ glActiveTexture' = s.glActiveTexture
    /\ glTextureUnits' = s.glTextureUnits
    /\ call' = s.call
    /\ ret' = s.ret
    /\ glLog' = s.glLog

\* one entry of glLog: the function called, a text argument, two integers
Ev(fn, text, a, b) == [fn |-> fn, text |-> text, a |-> a, b |-> b]
Emit(s, e) == [s EXCEPT !.glLog = Append(@, e)]
\* the start of a public call: its record, an empty log
Enter(s, c) == [s EXCEPT !.call = c, !.glLog = <<>>, !.ret = TRUE]
Return(s, r) == [s EXCEPT !.ret = r]

EmptyMap == <<>>
MapPut(m, k, v) == [x \in DOMAIN m \cup {k} |-> IF x = k THEN v ELSE m[x]]

(***************************************************************************)
(* The rendering backend (ARB_shader_objects), as far as the class uses    *)
(* it.  A program object is free (the name is unused), live, or flagged:   *)
(* deleting the program that is current only flags it, and it is freed     *)
(* when another program becomes current.                                   *)
(***************************************************************************)
\* uniforms is the part of the program's uniform table the backend has been asked
\* for so far: name -> location, or -1 for a name the program does not declare
FreeObject == [status |-> "free", linked |-> FALSE, uniforms |-> EmptyMap]

\* the locations a linked program gives its uniforms
Locations == 0..(Cardinality(Names) - 1)

glCreateProgramObject(s, id) ==
    [Emit(s, Ev("glCreateProgramObject", "", id, 0)) EXCEPT
        !.glObjects[id] = [status |-> "live", linked |-> FALSE, uniforms |-> EmptyMap]]

glDeleteProgram(s, id) ==
    [Emit(s, Ev("glDeleteObject", "program", id, 0)) EXCEPT
        !.glObjects[id] =
            IF s.glObjects[id].status = "free" THEN @
            ELSE IF s.glCurrentProgram = id
            THEN [status |-> "flagged", linked |-> @.linked, uniforms |-> EmptyMap]
            ELSE FreeObject]

glLinkProgram(s, id, linkOk) ==
    [Emit(s, Ev("glLinkProgram", IF linkOk THEN "linked" ELSE "failed", id, 0)) EXCEPT
        !.glObjects[id].linked = linkOk]

\* a name that is not a linked program object is an error and changes nothing
glUseProgramObject(s, id) ==
    LET valid == id = 0 \/ (s.glObjects[id].status # "free" /\ s.glObjects[id].linked)
        old == s.glCurrentProgram
        t == Emit(s, Ev("glUseProgramObject", IF valid THEN "" ELSE "GL_INVALID", id, 0))
    IN  IF ~valid \/ id = old THEN t
        ELSE [t EXCEPT !.glCurrentProgram = id,
                       !.glObjects = IF old # 0 /\ s.glObjects[old].status = "flagged"
                                     THEN [@ EXCEPT ![old] = FreeObject] ELSE @]

\* glGetUniformLocation(id, name).  The program's uniform table is fixed by the
\* link; the model decides an entry when it is first asked for: answer is the
\* backend's reply for a name not asked for before, any location no other name
\* of the program has, or -1.
IsLinkedProgram(s, id) ==
    id # 0 /\ s.glObjects[id].status # "free" /\ s.glObjects[id].linked

glGetUniformLocation(s, id, name, answer) ==
    IF ~IsLinkedProgram(s, id) THEN NotFound
    ELSE IF name \in DOMAIN s.glObjects[id].uniforms THEN s.glObjects[id].uniforms[name]
    ELSE answer

glGetUniformLocationState(s, id, name, answer) ==
    LET location == glGetUniformLocation(s, id, name, answer)
        t == Emit(s, Ev("glGetUniformLocation", name, id, location))
    IN  IF IsLinkedProgram(s, id)
        THEN [t EXCEPT !.glObjects[id].uniforms = MapPut(@, name, location)]
        ELSE t

\* the replies the backend can give when program id is asked for name
UniformAnswers(s, id, name) ==
    IF ~IsLinkedProgram(s, id) THEN {NotFound}
    ELSE LET known == s.glObjects[id].uniforms
         IN  IF name \in DOMAIN known THEN {known[name]}
             ELSE {NotFound} \cup (Locations \ {known[n] : n \in DOMAIN known})

\* program names the backend may hand out next
FreeIds(s) == {id \in ProgramIds : s.glObjects[id].status = "free"}

(***************************************************************************)
(* The file-scope helpers of Shader.cpp.                                   *)
(***************************************************************************)
checkMaxTextureUnits(s) == s.glMaxCombined

\* static GLint maxUnits = checkMaxTextureUnits(): queried on the first call
getMaxTextureUnitsState(s) ==
    IF s.maxUnits.init THEN s
    ELSE [Emit(s, Ev("glGetIntegerv", "GL_MAX_COMBINED_TEXTURE_IMAGE_UNITS", 0, 0))
            EXCEPT !.maxUnits = [init |-> TRUE, value |-> checkMaxTextureUnits(s)]]

getMaxTextureUnits(s) == getMaxTextureUnitsState(s).maxUnits.value

checkShadersAvailable(s) ==
    [Emit(s, Ev("checkShadersAvailable", "", 0, 0)) EXCEPT
        !.vertexShaderAvailable = s.glExtensions.basic,
        !.fragmentShaderAvailable = s.glExtensions.basic,
        !.geometryShaderAvailable = s.glExtensions.geometry,
        !.available = [init |-> TRUE, value |-> s.glExtensions.basic]]

\* Shader::isAvailable(shaderTypes): the state after the call (the static
\* "available" is initialised by the first call) ...
isAvailableState(s) ==
    LET t == Emit(s, Ev("isAvailable", "", 0, 0))
    IN  IF t.available.init THEN t ELSE checkShadersAvailable(t)

\* isAvailable that tests the vertex and fragment flags only
isAvailableBasicOnly(s, shaderTypes) ==
    LET t == isAvailableState(s)
    IN  IF "vertex" \in shaderTypes /\ ~t.vertexShaderAvailable THEN FALSE
        ELSE IF "fragment" \in shaderTypes /\ ~t.fragmentShaderAvailable THEN FALSE
        ELSE TRUE

\* ... and the value it returns, read from the flags of that state
isAvailable(s, shaderTypes) ==
    LET t == isAvailableState(s)
    IN  IF "vertex" \in shaderTypes /\ ~t.vertexShaderAvailable THEN FALSE
        ELSE IF "fragment" \in shaderTypes /\ ~t.fragmentShaderAvailable THEN FALSE
        ELSE IF "geometry" \in shaderTypes /\ ~t.geometryShaderAvailable THEN FALSE
        ELSE TRUE

(***************************************************************************)
(* Shader::compile                                                         *)
(***************************************************************************)
\* the write m_shaderProgram = value
SetShaderProgram(s, value) ==
    [Emit(s, Ev("m_shaderProgram=", "", value, 0)) EXCEPT !.m_shaderProgram = value]

\* DestroyOldProgram without "m_shaderProgram = 0": the stale handle stays
DestroyOldProgramKeepHandle(s) ==
    IF s.m_shaderProgram # 0 THEN glDeleteProgram(s, s.m_shaderProgram) ELSE s

\* lines 637-642: destroy the shader if it was already created
DestroyOldProgram(s) ==
    IF s.m_shaderProgram # 0
    THEN SetShaderProgram(glDeleteProgram(s, s.m_shaderProgram), 0)
    ELSE s

\* lines 644-647: reset the internal state
\* (the log keeps how many entries each clear() dropped)
Size(m) == Cardinality(DOMAIN m)

\* ResetInternalState without m_params.clear()
ResetInternalStateKeepParams(s) ==
    LET s1 == Emit(s, Ev("m_currentTexture=", "", NotFound, 0))
        s2 == Emit(s1, Ev("m_textures.clear", "", Size(s.m_textures), 0))
    IN  [s2 EXCEPT !.m_currentTexture = NotFound, !.m_textures = EmptyMap]

ResetInternalState(s) ==
    LET s1 == Emit(s, Ev("m_currentTexture=", "", NotFound, 0))
        s2 == Emit(s1, Ev("m_textures.clear", "", Size(s.m_textures), 0))
        s3 == Emit(s2, Ev("m_params.clear", "", Size(s.m_params), 0))
    IN  [s3 EXCEPT !.m_currentTexture = NotFound, !.m_textures = EmptyMap,
                   !.m_params = EmptyMap]

\* one stage block of compile (lines 655-679, 682-706, 709-733): create the stage
\* object, compile it; on failure report, delete the stage and the program;
\* on success attach the stage and delete the stage object
CompileStage(s, program, stage, code) ==
    LET s1 == Emit(s, Ev("glCreateShaderObject", stage, 0, 0))
        s2 == Emit(s1, Ev("glCompileShader", stage, IF code = BadCode THEN 0 ELSE 1, 0))
    IN  IF code = BadCode
        THEN LET s3 == Emit(s2, Ev("err", "Failed to compile " \o stage \o " shader", 0, 0))
                 s4 == Emit(s3, Ev("glDeleteObject", stage, 0, 0))
             IN  glDeleteProgram(s4, program)
        ELSE LET s3 == Emit(s2, Ev("glAttachObject", stage, program, 0))
             IN  Emit(s3, Ev("glDeleteObject", stage, 0, 0))

\* LinkAndStore without the "return false" of the link-status check: the handle
\* of the deleted program is stored
LinkAndStoreUnchecked(s, program, linkOk) ==
    LET s1 == glLinkProgram(s, program, linkOk)
        s2 == IF ~linkOk
              THEN glDeleteProgram(Emit(s1, Ev("err", "Failed to link shader", 0, 0)), program)
              ELSE s1
    IN  Return(Emit(SetShaderProgram(s2, program), Ev("glFlush", "", 0, 0)), TRUE)

\* LinkAndStore without the assignment to m_shaderProgram
LinkAndStoreNoAssign(s, program, linkOk) ==
    LET s1 == glLinkProgram(s, program, linkOk)
    IN  IF ~linkOk
        THEN Return(glDeleteProgram(
                 Emit(s1, Ev("err", "Failed to link shader", 0, 0)), program), FALSE)
        ELSE Return(Emit(s1, Ev("glFlush", "", 0, 0)), TRUE)

\* lines 735-757: link, check the link status, store the handle, flush
LinkAndStore(s, program, linkOk) ==
    LET s1 == glLinkProgram(s, program, linkOk)
    IN  IF ~linkOk
        THEN Return(glDeleteProgram(
                 Emit(s1, Ev("err", "Failed to link shader", 0, 0)), program), FALSE)
        ELSE Return(Emit(SetShaderProgram(s1, program), Ev("glFlush", "", 0, 0)), TRUE)

\* the stage blocks in the order of the code: vertex, geometry, fragment
CompileFragment(s, program, f, linkOk) ==
    IF f = NoCode THEN LinkAndStore(s, program, linkOk)
    ELSE IF f = BadCode THEN Return(CompileStage(s, program, "fragment", f), FALSE)
    ELSE LinkAndStore(CompileStage(s, program, "fragment", f), program, linkOk)

\* CompileGeometry that goes on to the fragment stage after a geometry stage
\* that failed to compile
CompileGeometryGoOn(s, program, g, f, linkOk) ==
    IF g = NoCode THEN CompileFragment(s, program, f, linkOk)
    ELSE CompileFragment(CompileStage(s, program, "geometry", g), program, f, linkOk)

CompileGeometry(s, program, g, f, linkOk) ==
    IF g = NoCode THEN CompileFragment(s, program, f, linkOk)
    ELSE IF g = BadCode THEN Return(CompileStage(s, program, "geometry", g), FALSE)
    ELSE CompileFragment(CompileStage(s, program, "geometry", g), program, f, linkOk)

CompileVertex(s, program, v, g, f, linkOk) ==
    IF v = NoCode THEN CompileGeometry(s, program, g, f, linkOk)
    ELSE IF v = BadCode THEN Return(CompileStage(s, program, "vertex", v), FALSE)
    ELSE CompileGeometry(CompileStage(s, program, "vertex", v), program, g, f, linkOk)

\* lines 627-629
ShadersToUse(v, g, f) ==
    (IF v # NoCode THEN {"vertex"} ELSE {}) \cup
    (IF g # NoCode THEN {"geometry"} ELSE {}) \cup
    (IF f # NoCode THEN {"fragment"} ELSE {})

\* compile without the default vertex shader for a geometry shader alone
VertexCodeAsGiven(v, g, defaultCode) == v

\* lines 653-654: a geometry shader without a vertex shader gets the default one,
\* whose compile status is the backend's to decide (defaultCode)
VertexCodeToCompile(v, g, defaultCode) ==
    IF v = NoCode /\ g # NoCode THEN defaultCode ELSE v

\* compile with the old program destroyed and the state reset before the
\* capability check instead of after it
compileDestroyFirst(s, v, g, f, defaultCode, linkOk, program) ==
    LET s0 == ResetInternalState(DestroyOldProgram(s))
        s1 == isAvailableState(s0)
    IN  IF ~isAvailable(s, ShadersToUse(v, g, f))
        THEN Return(Emit(s1, Ev("err", "Failed to create a shader", 0, 0)), FALSE)
        ELSE CompileVertex(glCreateProgramObject(s1, program), program,
                           VertexCodeToCompile(v, g, defaultCode), g, f, linkOk)

\* compile that discards the old program when the capability check fails
compileDiscardOnUnavailable(s, v, g, f, defaultCode, linkOk, program) ==
    LET s1 == isAvailableState(s)
        s2 == DestroyOldProgram(s1)
        s3 == ResetInternalState(s2)
    IN  IF ~isAvailable(s, ShadersToUse(v, g, f))
        THEN Return(Emit(s3, Ev("err", "Failed to create a shader", 0, 0)), FALSE)
        ELSE CompileVertex(glCreateProgramObject(s3, program), program,
                           VertexCodeToCompile(v, g, defaultCode), g, f, linkOk)

\* Shader::compile(vertexShaderCode, geometryShaderCode, fragmentShaderCode).
\* defaultCode, linkOk and program are the backend's answers: the compile status
\* of the default vertex shader, the link status and the name of the new
\* program object.
compile(s, v, g, f, defaultCode, linkOk, program) ==
    LET s1 == isAvailableState(s)
    IN  IF ~isAvailable(s, ShadersToUse(v, g, f))
        THEN Return(Emit(s1, Ev("err", "Failed to create a shader", 0, 0)), FALSE)
        ELSE LET s2 == DestroyOldProgram(s1)
                 s3 == ResetInternalState(s2)
                 s4 == glCreateProgramObject(s3, program)
             IN  CompileVertex(s4, program, VertexCodeToCompile(v, g, defaultCode),
                               g, f, linkOk)

getNativeHandle(s) == s.m_shaderProgram

\* every stage the call compiles reports success
AllCompile(v, g, f, defaultCode) ==
    /\ VertexCodeToCompile(v, g, defaultCode) # BadCode
    /\ g # BadCode
    /\ f # BadCode

\* the program names free once the old program of s has been deleted
FreeIdsAfterDestroy(s) == FreeIds(DestroyOldProgram(s))

CallRecord(op, name, texture, codes) ==
    [op |-> op, name |-> name, texture |-> texture, codes |-> codes]
NoCodes == <<NoCode, NoCode, NoCode>>

\* Shader::loadFromMemory(vertexShader, geometryShader, fragmentShader):
\* an empty string is passed to compile as NULL
loadFromMemory(s, v, g, f, defaultCode, linkOk, program) ==
    compile(Enter(s, CallRecord("loadFromMemory", "", "", <<v, g, f>>)),
            v, g, f, defaultCode, linkOk, program)

\* the sources worth telling apart: compile stops at the first stage that fails,
\* so of a later stage only the presence counts
Sources ==
    {c \in Codes \X Codes \X Codes :
        /\ c[1] = BadCode => c[2] # BadCode /\ c[3] # BadCode
        /\ c[2] = BadCode => c[3] # BadCode}

\* what a client that only writes fragment shaders loads
FragmentSources == {c \in Sources : c[1] = NoCode /\ c[2] = NoCode}

LoadFromMemory(sources) ==
    \E c \in sources :
    LET v == c[1]  g == c[2]  f == c[3] IN
    \E defaultCode \in (IF v = NoCode /\ g # NoCode THEN {GoodCode, BadCode} ELSE {GoodCode}) :
    \E linkOk \in (IF AllCompile(v, g, f, defaultCode) THEN BOOLEAN ELSE {FALSE}) :
    \E program \in FreeIdsAfterDestroy(State) :
        Becomes(loadFromMemory(State, v, g, f, defaultCode, linkOk, program))

(***************************************************************************)
(* The loaders that read their sources: loadFromFile and loadFromStream.   *)
(* A file or stream is named by what reading it meets: a file that cannot  *)
(* be opened, a file whose tellg() fails, an empty one, a stream whose     *)
(* getSize() or read() reports an error or comes short, or a source that   *)
(* is read whole and then compiles or not.                                 *)
(***************************************************************************)
FileStatuses == {"unopenable", "unsizable", "empty", GoodCode, BadCode}
StreamStatuses == {"size error", "empty", "short read", "read error", GoodCode, BadCode}
\* the empty file name of the three-file loader
NoFile == ""
\* a buffer that holds only the terminating '\0'
EmptySource == "empty string"

\* std::ifstream file(filename): does it open; file.tellg() at the end
FileOpens(file) == file # "unopenable"
FileTellg(file) == IF file = "unsizable" THEN -1 ELSE IF file = "empty" THEN 0 ELSE 1

\* getFileContents that reports success for a file that did not open
getFileContentsAlwaysTrue(file) ==
    [success |-> TRUE,
     buffer |-> IF FileOpens(file) /\ FileTellg(file) > 0 THEN file ELSE EmptySource]

\* getFileContents(filename, buffer): lines 83-103
getFileContents(file) ==
    IF FileOpens(file)
    THEN [success |-> TRUE,
          buffer |-> IF FileTellg(file) > 0 THEN file ELSE EmptySource]
    ELSE [success |-> FALSE, buffer |-> EmptySource]

\* stream.getSize() and stream.read(&buffer[0], size)
StreamGetSize(stream) ==
    IF stream = "size error" THEN -1 ELSE IF stream = "empty" THEN 0 ELSE 2
StreamRead(stream) ==
    IF stream = "read error" THEN -1 ELSE IF stream = "short read" THEN 1 ELSE 2

\* getStreamContents(stream, buffer): lines 106-119
getStreamContents(stream) ==
    LET size == StreamGetSize(stream)
    IN  IF size > 0
        THEN [success |-> StreamRead(stream) = size,
              buffer |-> IF StreamRead(stream) = size THEN stream ELSE EmptySource]
        ELSE [success |-> TRUE, buffer |-> EmptySource]

\* what the backend makes of the pointer &buffer[0]: emptyCode is the compile
\* status it gives an empty source
SourceCode(buffer, emptyCode) == IF buffer = EmptySource THEN emptyCode ELSE buffer

\* the arguments of compile for one source of the given type
SourcesOf(type, code) ==
    <<IF type = "vertex" THEN code ELSE NoCode,
      IF type = "geometry" THEN code ELSE NoCode,
      IF type = "fragment" THEN code ELSE NoCode>>

\* Shader::loadFromFile(filename, type)
loadFromFile(s0, file, type, emptyCode, defaultCode, linkOk, program) ==
    LET s == Enter(s0, CallRecord("loadFromFile", type, "", SourcesOf(type, file)))
        shader == getFileContents(file)
        c == SourcesOf(type, SourceCode(shader.buffer, emptyCode))
    IN  IF ~shader.success
        THEN Return(Emit(s, Ev("err", "Failed to open shader file", 0, 0)), FALSE)
        ELSE compile(s, c[1], c[2], c[3], defaultCode, linkOk, program)

\* Shader::loadFromFile(vertexShaderFilename, geometryShaderFilename,
\* fragmentShaderFilename)
loadFromFiles(s0, vf, gf, ff, emptyCode, defaultCode, linkOk, program) ==
    LET s == Enter(s0, CallRecord("loadFromFiles", "", "", <<vf, gf, ff>>))
        vertexShader == getFileContents(vf)
        geometryShader == getFileContents(gf)
        fragmentShader == getFileContents(ff)
    IN  IF vf # NoFile /\ ~vertexShader.success
        THEN Return(Emit(s, Ev("err", "Failed to open vertex shader file", 0, 0)), FALSE)
        ELSE IF gf # NoFile /\ ~geometryShader.success
        THEN Return(Emit(s, Ev("err", "Failed to open geometry shader file", 0, 0)), FALSE)
        ELSE IF ff # NoFile /\ ~fragmentShader.success
        THEN Return(Emit(s, Ev("err", "Failed to open fragment shader file", 0, 0)), FALSE)
        ELSE compile(s,
                 IF vf # NoFile THEN SourceCode(vertexShader.buffer, emptyCode) ELSE NoCode,
                 IF gf # NoFile THEN SourceCode(geometryShader.buffer, emptyCode) ELSE NoCode,
                 IF ff # NoFile THEN SourceCode(fragmentShader.buffer, emptyCode) ELSE NoCode,
                 defaultCode, linkOk, program)

\* Shader::loadFromStream(stream, type)
loadFromStream(s0, stream, type, emptyCode, defaultCode, linkOk, program) ==
    LET s == Enter(s0, CallRecord("loadFromStream", type, "", SourcesOf(type, stream)))
        shader == getStreamContents(stream)
        c == SourcesOf(type, SourceCode(shader.buffer, emptyCode))
    IN  IF ~shader.success
        THEN Return(Emit(s, Ev("err", "Failed to read shader from stream", 0, 0)), FALSE)
        ELSE compile(s, c[1], c[2], c[3], defaultCode, linkOk, program)

\* Shader::loadFromStream(vertexShaderStream, geometryShaderStream,
\* fragmentShaderStream)
loadFromStreams(s0, vs, gs, fs, emptyCode, defaultCode, linkOk, program) ==
    LET s == Enter(s0, CallRecord("loadFromStreams", "", "", <<vs, gs, fs>>))
        useVertexShader == StreamGetSize(vs) > 0
        useGeometryShader == StreamGetSize(gs) > 0
        useFragmentShader == StreamGetSize(fs) > 0
        vertexShader == getStreamContents(vs)
        geometryShader == getStreamContents(gs)
        fragmentShader == getStreamContents(fs)
    IN  IF useVertexShader /\ ~vertexShader.success
        THEN Return(Emit(s, Ev("err", "Failed to read vertex shader from stream", 0, 0)), FALSE)
        ELSE IF useGeometryShader /\ ~geometryShader.success
        THEN Return(Emit(s, Ev("err", "Failed to read geometry shader from stream", 0, 0)), FALSE)
        ELSE IF useFragmentShader /\ ~fragmentShader.success
        THEN Return(Emit(s, Ev("err", "Failed to read fragment shader from stream", 0, 0)), FALSE)
        ELSE compile(s,
                 IF useVertexShader THEN SourceCode(vertexShader.buffer, emptyCode) ELSE NoCode,
                 IF useGeometryShader THEN SourceCode(geometryShader.buffer, emptyCode) ELSE NoCode,
                 IF useFragmentShader THEN SourceCode(fragmentShader.buffer, emptyCode) ELSE NoCode,
                 defaultCode, linkOk, program)

\* The backend's answers to a loader call, for the buffers the loader read:
\* the compile status of an empty source (asked for only when a buffer is
\* empty), that of the default vertex shader (only when it is compiled), the
\* link status (only when every stage compiles) and the new program's name.
\* A call that stops at a read failure asks the backend nothing.
NoAnswers == {[emptyCode |-> GoodCode, defaultCode |-> GoodCode, linkOk |-> FALSE, program |-> 0]}
BackendAnswers(s, failed, buffers) ==
    IF failed THEN NoAnswers
    ELSE {b \in [emptyCode : {GoodCode, BadCode}, defaultCode : {GoodCode, BadCode},
                 linkOk : BOOLEAN, program : FreeIdsAfterDestroy(s)] :
            LET c == [i \in 1..3 |-> SourceCode(buffers[i], b.emptyCode)]
            IN  /\ (\A i \in 1..3 : buffers[i] # EmptySource) => b.emptyCode = GoodCode
                /\ ~(c[1] = NoCode /\ c[2] # NoCode) => b.defaultCode = GoodCode
                /\ ~AllCompile(c[1], c[2], c[3], b.defaultCode) => ~b.linkOk}

\* the files and streams the three-source loaders are given in the model: a
\* vertex and a fragment source of every kind these loaders tell apart (a
\* stream of size 0 is to them a stream whose size query fails), a geometry
\* source that is absent or cannot be read
FileArgs == {NoFile, "unopenable", "unsizable", GoodCode}
GeometryFileArgs == {NoFile, "unopenable"}
StreamArgs == {"size error", "short read", GoodCode}
GeometryStreamArgs == {"empty", "short read"}

LoadFromFile ==
    \E file \in FileStatuses, type \in Stages :
    \E b \in BackendAnswers(State, ~getFileContents(file).success,
                            SourcesOf(type, getFileContents(file).buffer)) :
        Becomes(loadFromFile(State, file, type, b.emptyCode, b.defaultCode, b.linkOk,
                             b.program))

LoadFromFiles ==
    \E vf \in FileArgs, gf \in GeometryFileArgs, ff \in FileArgs :
    \E b \in BackendAnswers(State,
                \E file \in {vf, gf, ff} \ {NoFile} : ~getFileContents(file).success,
                [i \in 1..3 |-> IF <<vf, gf, ff>>[i] = NoFile THEN NoCode
                                ELSE getFileContents(<<vf, gf, ff>>[i]).buffer]) :
        Becomes(loadFromFiles(State, vf, gf, ff, b.emptyCode, b.defaultCode, b.linkOk,
                              b.program))

LoadFromStream ==
    \E stream \in StreamStatuses, type \in Stages :
    \E b \in BackendAnswers(State, ~getStreamContents(stream).success,
                            SourcesOf(type, getStreamContents(stream).buffer)) :
        Becomes(loadFromStream(State, stream, type, b.emptyCode, b.defaultCode, b.linkOk,
                               b.program))

LoadFromStreams ==
    \E vs \in StreamArgs, gs \in GeometryStreamArgs, fs \in StreamArgs :
    \E b \in BackendAnswers(State,
                \E stream \in {vs, gs, fs} : ~getStreamContents(stream).success,
                [i \in 1..3 |-> IF StreamGetSize(<<vs, gs, fs>>[i]) > 0
                                THEN getStreamContents(<<vs, gs, fs>>[i]).buffer
                                ELSE NoCode]) :
        Becomes(loadFromStreams(State, vs, gs, fs, b.emptyCode, b.defaultCode, b.linkOk,
                                b.program))

(***************************************************************************)
(* Shader::setParameter and Shader::getParamLocation                       *)
(***************************************************************************)
\* getParamLocation that caches only the uniforms it finds
getParamLocationStateSkipMissing(s, name, answer) ==
    IF name \in DOMAIN s.m_params THEN s
    ELSE LET location == glGetUniformLocation(s, s.m_shaderProgram, name, answer)
             s1 == glGetUniformLocationState(s, s.m_shaderProgram, name, answer)
         IN  IF location = NotFound
             THEN Emit(s1, Ev("err", "Parameter not found in shader", 0, 0))
             ELSE [Emit(s1, Ev("m_params.insert", name, location, 0))
                     EXCEPT !.m_params = MapPut(@, name, location)]

\* getParamLocation that writes the warning whenever the location is -1, cached
\* or not
getParamLocationStateAlwaysWarn(s, name, answer) ==
    IF name \in DOMAIN s.m_params
    THEN IF s.m_params[name] = NotFound
         THEN Emit(s, Ev("err", "Parameter not found in shader", 0, 0))
         ELSE s
    ELSE LET location == glGetUniformLocation(s, s.m_shaderProgram, name, answer)
             s1 == glGetUniformLocationState(s, s.m_shaderProgram, name, answer)
             s2 == [Emit(s1, Ev("m_params.insert", name, location, 0))
                      EXCEPT !.m_params = MapPut(@, name, location)]
         IN  IF location = NotFound
             THEN Emit(s2, Ev("err", "Parameter not found in shader", 0, 0))
             ELSE s2

\* Shader::getParamLocation(name): the state after the call (cache filled, the
\* backend queried and the warning written on a miss) ...
getParamLocationState(s, name, answer) ==
    IF name \in DOMAIN s.m_params THEN s
    ELSE LET location == glGetUniformLocation(s, s.m_shaderProgram, name, answer)
             s1 == glGetUniformLocationState(s, s.m_shaderProgram, name, answer)
             s2 == [Emit(s1, Ev("m_params.insert", name, location, 0))
                      EXCEPT !.m_params = MapPut(@, name, location)]
         IN  IF location = NotFound
             THEN Emit(s2, Ev("err", "Parameter not found in shader", 0, 0))
             ELSE s2

\* ... and the location it returns
getParamLocation(s, name, answer) ==
    IF name \in DOMAIN s.m_params THEN s.m_params[name]
    ELSE glGetUniformLocation(s, s.m_shaderProgram, name, answer)

\* the replies the backend can give to the query a setParameter call on s makes,
\* one value when the call makes no query
ParamAnswers(s, name) ==
    IF s.m_shaderProgram = 0 \/ name \in DOMAIN s.m_params THEN {NotFound}
    ELSE UniformAnswers(s, s.m_shaderProgram, name)

\* the overloads that write a value.  The 2, 3 and 4 float overloads (lines
\* 395-463) are the 1 float overload with glUniform2f/3f/4f in place of
\* glUniform1f; the model draws the setter from the first and the last overload.
UniformSetters == {"glUniform1f", "glUniformMatrix4fv"}

\* Shader::setParameter(name, float...) and setParameter(name, Transform): setter
\* is the glUniform* call of the overload.  Vector2f, Vector3f and Color forward
\* to the 2, 3 and 4 float overloads.
setParameterValue(s0, name, setter, answer) ==
    LET s == Enter(s0, CallRecord("setParameter", name, "", NoCodes))
    IN  IF s.m_shaderProgram = 0 THEN s
        ELSE LET program == s.glCurrentProgram
                 s1 == glUseProgramObject(
                           Emit(s, Ev("glGetHandle", "", program, 0)), s.m_shaderProgram)
                 location == getParamLocation(s1, name, answer)
                 s2 == getParamLocationState(s1, name, answer)
                 s3 == IF location # NotFound
                       THEN Emit(s2, Ev(setter, name, location, 0))
                       ELSE s2
             IN  glUseProgramObject(s3, program)

\* the insertion of setParameter(name, const Texture&) with the unit test
\* "size() + 1 > maxUnits" in place of ">="
InsertTextureOffByOne(s, location, texture) ==
    LET s2 == getMaxTextureUnitsState(s)
    IN  IF Size(s2.m_textures) + 1 > getMaxTextureUnits(s)
        THEN Emit(s2, Ev("err", "all available texture units are used", 0, 0))
        ELSE [Emit(s2, Ev("m_textures.insert", texture, location, 0))
                EXCEPT !.m_textures = MapPut(@, location, texture)]

\* InsertTexture without the "return" after the error: the entry is made anyway
InsertTextureReportOnly(s, location, texture) ==
    LET s2 == getMaxTextureUnitsState(s)
        s3 == IF Size(s2.m_textures) + 1 >= getMaxTextureUnits(s)
              THEN Emit(s2, Ev("err", "all available texture units are used", 0, 0))
              ELSE s2
    IN  [Emit(s3, Ev("m_textures.insert", texture, location, 0))
            EXCEPT !.m_textures = MapPut(@, location, texture)]

\* the insertion of setParameter(name, const Texture&) without the test of the
\* texture unit limit
InsertTextureUnchecked(s, location, texture) ==
    LET s2 == getMaxTextureUnitsState(s)
    IN  [Emit(s2, Ev("m_textures.insert", texture, location, 0))
            EXCEPT !.m_textures = MapPut(@, location, texture)]

\* lines 526-534: a new entry, once there are enough texture units
InsertTexture(s, location, texture) ==
    LET s2 == getMaxTextureUnitsState(s)
    IN  IF Size(s2.m_textures) + 1 >= getMaxTextureUnits(s)
        THEN Emit(s2, Ev("err", "all available texture units are used", 0, 0))
        ELSE [Emit(s2, Ev("m_textures.insert", texture, location, 0))
                EXCEPT !.m_textures = MapPut(@, location, texture)]

\* the replacement of setParameter(name, const Texture&) made only while the
\* table is below the unit limit
ReplaceTextureIfRoom(s, location, texture) ==
    IF Size(s.m_textures) + 1 >= getMaxTextureUnits(s)
    THEN Emit(getMaxTextureUnitsState(s),
              Ev("err", "all available texture units are used", 0, 0))
    ELSE [Emit(s, Ev("m_textures.replace", s.m_textures[location], location, 0))
            EXCEPT !.m_textures[location] = texture]

\* lines 536-540: location already used, just replace the texture
ReplaceTexture(s, location, texture) ==
    [Emit(s, Ev("m_textures.replace", s.m_textures[location], location, 0))
        EXCEPT !.m_textures[location] = texture]

\* Shader::setParameter(name, const Texture&)
setParameterTexture(s0, name, texture, answer) ==
    LET s == Enter(s0, CallRecord("setParameterTexture", name, texture, NoCodes))
    IN  IF s.m_shaderProgram = 0 THEN s
        ELSE LET location == getParamLocation(s, name, answer)
                 s1 == getParamLocationState(s, name, answer)
             IN  IF location = NotFound THEN s1
                 ELSE IF location \notin DOMAIN s1.m_textures
                 THEN InsertTexture(s1, location, texture)
                 ELSE ReplaceTexture(s1, location, texture)

\* setParameter(name, CurrentTexture) without the test of m_shaderProgram
setParameterCurrentTextureUnguarded(s0, name, answer) ==
    LET s == Enter(s0, CallRecord("setParameterCurrentTexture", name, "", NoCodes))
        location == getParamLocation(s, name, answer)
        s1 == getParamLocationState(s, name, answer)
    IN  [Emit(s1, Ev("m_currentTexture=", "", location, 0))
           EXCEPT !.m_currentTexture = location]

\* setParameter(name, CurrentTexture) that keeps the sentinel it has when the
\* name is not found
setParameterCurrentTextureKeepFound(s0, name, answer) ==
    LET s == Enter(s0, CallRecord("setParameterCurrentTexture", name, "", NoCodes))
    IN  IF s.m_shaderProgram = 0 THEN s
        ELSE LET location == getParamLocation(s, name, answer)
                 s1 == getParamLocationState(s, name, answer)
             IN  IF location = NotFound THEN s1
                 ELSE [Emit(s1, Ev("m_currentTexture=", "", location, s.m_currentTexture))
                         EXCEPT !.m_currentTexture = location]

\* Shader::setParameter(name, CurrentTexture); the log keeps the location the
\* sentinel held before the write
setParameterCurrentTexture(s0, name, answer) ==
    LET s == Enter(s0, CallRecord("setParameterCurrentTexture", name, "", NoCodes))
    IN  IF s.m_shaderProgram = 0 THEN s
        ELSE LET location == getParamLocation(s, name, answer)
                 s1 == getParamLocationState(s, name, answer)
             IN  [Emit(s1, Ev("m_currentTexture=", "", location, s.m_currentTexture))
                    EXCEPT !.m_currentTexture = location]

SetParameterValue(names) ==
    \E name \in names, setter \in UniformSetters :
    \E answer \in ParamAnswers(State, name) :
        Becomes(setParameterValue(State, name, setter, answer))

SetParameterTexture(names, textures) ==
    \E name \in names, texture \in textures :
    \E answer \in ParamAnswers(State, name) :
        Becomes(setParameterTexture(State, name, texture, answer))

SetParameterCurrentTexture(names) ==
    \E name \in names :
    \E answer \in ParamAnswers(State, name) :
        Becomes(setParameterCurrentTexture(State, name, answer))

(***************************************************************************)
(* Shader::bind and Shader::bindTextures                                   *)
(***************************************************************************)
\* glActiveTexture(GL_TEXTURE0 + unit): a unit the backend does not have is an
\* error and changes nothing
glActiveTextureCall(s, unit) ==
    LET valid == unit < s.glMaxCombined \/ unit = 0
        t == Emit(s, Ev("glActiveTexture", IF valid THEN "" ELSE "GL_INVALID", unit, 0))
    IN  IF valid THEN [t EXCEPT !.glActiveTexture = unit] ELSE t

\* Texture::bind(texture): binds it to the active unit
TextureBind(s, texture) ==
    [Emit(s, Ev("Texture::bind", texture, s.glActiveTexture, 0)) EXCEPT
        !.glTextureUnits[s.glActiveTexture] = texture]

\* the keys of a std::map in iteration order
RECURSIVE Ascending(_)
Ascending(S) ==
    IF S = {} THEN <<>>
    ELSE LET m == CHOOSE x \in S : \A y \in S : x <= y
         IN  <<m>> \o Ascending(S \ {m})

\* the loop of bindTextures with the units counted from 0 ("index = i")
RECURSIVE BindTexturesFromZero(_, _, _)
BindTexturesFromZero(s, keys, i) ==
    IF i >= Len(keys) THEN s
    ELSE LET index == i
             s1 == Emit(s, Ev("glUniform1i", "", keys[i + 1], index))
             s2 == glActiveTextureCall(s1, index)
             s3 == TextureBind(s2, s.m_textures[keys[i + 1]])
         IN  BindTexturesFromZero(s3, keys, i + 1)

\* the loop of bindTextures from iteration i on (i counts from 0 in the code)
RECURSIVE BindTexturesFrom(_, _, _)
BindTexturesFrom(s, keys, i) ==
    IF i >= Len(keys) THEN s
    ELSE LET index == i + 1
             s1 == Emit(s, Ev("glUniform1i", "", keys[i + 1], index))
             s2 == glActiveTextureCall(s1, index)
             s3 == TextureBind(s2, s.m_textures[keys[i + 1]])
         IN  BindTexturesFrom(s3, keys, i + 1)

\* bindTextures without the final glActiveTexture(GL_TEXTURE0)
bindTexturesNoReset(s) ==
    BindTexturesFrom(s, Ascending(DOMAIN s.m_textures), 0)

\* bindTextures that also empties the units above the last one it used
bindTexturesClearRest(s) ==
    LET t == BindTexturesFrom(s, Ascending(DOMAIN s.m_textures), 0)
        u == [t EXCEPT !.glTextureUnits =
                 [i \in DOMAIN @ |-> IF i > Size(s.m_textures) THEN "none" ELSE @[i]]]
    IN  glActiveTextureCall(u, 0)

\* Shader::bindTextures()
bindTextures(s) ==
    glActiveTextureCall(BindTexturesFrom(s, Ascending(DOMAIN s.m_textures), 0), 0)

\* the default argument of isAvailable(int shaderTypes), which Shader.hpp gives
DefaultShaderTypes == {"vertex", "fragment"}

\* bind with the isAvailable test made only when a shader is to be enabled
bindUncheckedUnbind(s0, shader) ==
    LET s == Enter(s0, CallRecord("bind", IF shader THEN "this" ELSE "NULL", "", NoCodes))
        s1 == isAvailableState(s)
    IN  IF shader /\ s.m_shaderProgram # 0
        THEN IF ~isAvailable(s, DefaultShaderTypes)
             THEN Emit(s1, Ev("err", "Failed to bind or unbind shader", 0, 0))
             ELSE LET s2 == glUseProgramObject(s1, s1.m_shaderProgram)
                      s3 == bindTextures(s2)
                  IN  IF s3.m_currentTexture # NotFound
                      THEN Emit(s3, Ev("glUniform1i", "", s3.m_currentTexture, 0))
                      ELSE s3
        ELSE glUseProgramObject(s, 0)

\* Shader::bind(shader): shader is TRUE for the instance, FALSE for NULL
bind(s0, shader) ==
    LET s == Enter(s0, CallRecord("bind", IF shader THEN "this" ELSE "NULL", "", NoCodes))
        s1 == isAvailableState(s)
    IN  IF ~isAvailable(s, DefaultShaderTypes)
        THEN Emit(s1, Ev("err", "Failed to bind or unbind shader", 0, 0))
        ELSE IF shader /\ s1.m_shaderProgram # 0
        THEN LET s2 == glUseProgramObject(s1, s1.m_shaderProgram)
                 s3 == bindTextures(s2)
             IN  IF s3.m_currentTexture # NotFound
                 THEN Emit(s3, Ev("glUniform1i", "", s3.m_currentTexture, 0))
                 ELSE s3
        ELSE glUseProgramObject(s1, 0)

Bind == \E shader \in BOOLEAN : Becomes(bind(State, shader))

\* a client's Shader::bind(NULL); Shader::bind(&shader); Shader::bind(NULL),
\* with the backend calls of the three in glLog
bindNullThisNull(s) ==
    LET s1 == bind(s, FALSE)
        s2 == bind(s1, TRUE)
        s3 == bind(s2, FALSE)
    IN  [s3 EXCEPT !.call = CallRecord("bind", "NULL;this;NULL", "", NoCodes),
                   !.glLog = s1.glLog \o s2.glLog \o s3.glLog]

BindNullThisNull == Becomes(bindNullThisNull(State))

\* The application's own OpenGL code, which the class shares the context with
\* (setParameter saves and restores the program it finds current, line 378):
\* it builds a program object of its own and makes it current.
applicationUsesProgram(s0, id) ==
    LET s == Enter(s0, CallRecord("application", "glUseProgramObject", "", NoCodes))
    IN  glUseProgramObject(glLinkProgram(glCreateProgramObject(s, id), id, TRUE), id)

ApplicationUsesProgram ==
    \E id \in FreeIds(State) : Becomes(applicationUsesProgram(State, id))

(***************************************************************************)
(* isAvailable and getMaxTextureUnits called from several threads.  Each   *)
(* thread is at a line of the function it is in; a step of a thread is one *)
(* statement: taking the mutex, the test of a static's guard, a write of a *)
(* flag by the probe, a read of a flag, the return.  The C++03 statics of  *)
(* lines 77 and 605 are a guard that is tested, an initializer that runs   *)
(* when the guard is clear, and a store that sets the guard.  In the       *)
(* specification of the threads glLog is not reset: it holds the probes    *)
(* and limit queries the backend received since the process started.       *)
(***************************************************************************)
Threads == 1..MaxThreads
\* the masks the threads pass to isAvailable: none, one basic stage, the
\* geometry stage, and the default argument (Vertex | Fragment)
ShaderTypes == {{}, {"fragment"}, {"geometry"}, {"vertex", "fragment"}}
\* a thread that has not called yet
NoCall == [fn |-> "none", pc |-> "idle", shaderTypes |-> {}, ret |-> FALSE, units |-> 0]

\* sf::Mutex::lock() goes on while every thread takes the mutex unhindered
MutexIgnored(s) == TRUE

\* sf::Mutex::lock(), called by the constructor of sf::Lock (lines 75 and 603),
\* goes on once no thread holds the mutex
MutexFree(s) == s.mutex = 0

\* thread t enters Shader::isAvailable(shaderTypes) or getMaxTextureUnits()
threadCalls(s, t, fn, shaderTypes) ==
    [s EXCEPT !.threads[t] =
        [fn |-> fn, pc |-> IF fn = "isAvailable" THEN "603" ELSE "75",
         shaderTypes |-> shaderTypes, ret |-> FALSE, units |-> 0]]

\* the thread can take its next step: only sf::Lock's constructor waits
CanStep(s, t) ==
    /\ s.threads[t].pc # "idle"
    /\ s.threads[t].pc \in {"603", "75"} => MutexFree(s)

\* the return of either function: the destructor of sf::Lock unlocks the mutex
threadReturns(s, t) == [s EXCEPT !.mutex = 0, !.threads[t].pc = "idle"]

\* one statement of thread t inside Shader::isAvailable, checkShadersAvailable
\* included; the pc is the line the thread is about to execute
isAvailableStep(s, t) ==
    LET pc == s.threads[t].pc
        mask == s.threads[t].shaderTypes
        goto(l) == [s EXCEPT !.threads[t].pc = l]
        returns(v) == [s EXCEPT !.threads[t].pc = "618", !.threads[t].ret = v]
    IN  CASE pc = "603" -> [goto("605") EXCEPT !.mutex = t]
          [] pc = "605" -> IF s.available.init THEN goto("608")
                           ELSE Emit(goto("137"), Ev("checkShadersAvailable", "", t, 0))
          [] pc = "137" -> [goto("138") EXCEPT !.vertexShaderAvailable = s.glExtensions.basic]
          [] pc = "138" -> [goto("139") EXCEPT !.fragmentShaderAvailable = s.glExtensions.basic]
          [] pc = "139" -> [goto("141") EXCEPT !.geometryShaderAvailable = s.glExtensions.geometry]
          [] pc = "141" -> [goto("608") EXCEPT
                               !.available = [init |-> TRUE, value |-> s.glExtensions.basic]]
          [] pc = "608" -> IF "vertex" \in mask /\ ~s.vertexShaderAvailable
                           THEN returns(FALSE) ELSE goto("611")
          [] pc = "611" -> IF "fragment" \in mask /\ ~s.fragmentShaderAvailable
                           THEN returns(FALSE) ELSE goto("614")
          [] pc = "614" -> IF "geometry" \in mask /\ ~s.geometryShaderAvailable
                           THEN returns(FALSE) ELSE returns(TRUE)
          [] pc = "618" -> threadReturns(s, t)

\* one statement of thread t inside getMaxTextureUnits, checkMaxTextureUnits
\* included
getMaxTextureUnitsStep(s, t) ==
    LET pc == s.threads[t].pc
        goto(l) == [s EXCEPT !.threads[t].pc = l]
    IN  CASE pc = "75" -> [goto("77") EXCEPT !.mutex = t]
          [] pc = "77" -> IF s.maxUnits.init THEN goto("79")
                          ELSE Emit(goto("68"),
                                    Ev("glGetIntegerv", "GL_MAX_COMBINED_TEXTURE_IMAGE_UNITS", t, 0))
          [] pc = "68" -> [goto("79") EXCEPT
                              !.maxUnits = [init |-> TRUE, value |-> checkMaxTextureUnits(s)]]
          [] pc = "79" -> [goto("80") EXCEPT !.threads[t].units = s.maxUnits.value]
          [] pc = "80" -> threadReturns(s, t)

threadStep(s, t) ==
    IF s.threads[t].fn = "isAvailable" THEN isAvailableStep(s, t)
    ELSE getMaxTextureUnitsStep(s, t)

ThreadCallsIsAvailable ==
    \E t \in Threads, shaderTypes \in ShaderTypes :
        /\ threads[t].pc = "idle"
        /\ Becomes(threadCalls(State, t, "isAvailable", shaderTypes))

ThreadCallsGetMaxTextureUnits ==
    \E t \in Threads :
        /\ threads[t].pc = "idle"
        /\ Becomes(threadCalls(State, t, "getMaxTextureUnits", {}))

ThreadStep ==
    \E t \in Threads : CanStep(State, t) /\ Becomes(threadStep(State, t))

(***************************************************************************)
(* The life of an instance: Shader::Shader and Shader::~Shader.  After the *)
(* destructor the members are gone (the model keeps their last values);    *)
(* call.op = "~Shader" until an instance is constructed again.             *)
(***************************************************************************)
\* ~Shader without the glDeleteObject of the program
destroyShaderKeepProgram(s0) == Enter(s0, CallRecord("~Shader", "", "", NoCodes))

\* Shader::~Shader(): lines 165-172
destroyShader(s0) ==
    LET s == Enter(s0, CallRecord("~Shader", "", "", NoCodes))
    IN  IF s.m_shaderProgram # 0 THEN glDeleteProgram(s, s.m_shaderProgram) ELSE s

\* Shader::Shader(): lines 153-161
constructShader(s0) ==
    [Enter(s0, CallRecord("Shader", "", "", NoCodes)) EXCEPT
        !.m_shaderProgram = 0, !.m_currentTexture = NotFound,
        !.m_textures = EmptyMap, !.m_params = EmptyMap]

\* the instance exists: it has been constructed and not destroyed since
Alive == call.op # "~Shader"

DestroyShader == Alive /\ Becomes(destroyShader(State))
ConstructShader == ~Alive /\ Becomes(constructShader(State))

\* a new Shader, nothing probed, no backend object, on a given context
InitOn(extensions, units) ==
    /\ m_shaderProgram = 0
    /\ m_currentTexture = NotFound
    /\ m_textures = EmptyMap
    /\ m_params = EmptyMap
    /\ available = [init |-> FALSE, value |-> FALSE]
    /\ vertexShaderAvailable = FALSE
    /\ fragmentShaderAvailable = FALSE
    /\ geometryShaderAvailable = FALSE
    /\ maxUnits = [init |-> FALSE, value |-> 0]
    /\ mutex = 0
    /\ threads = [t \in Threads |-> NoCall]
    /\ glExtensions \in extensions
    /\ glMaxCombined \in units
    /\ glObjects = [id \in ProgramIds |-> FreeObject]
    /\ glCurrentProgram = 0
    /\ glActiveTexture = 0
    /\ glTextureUnits = [u \in 0..MaxTextureUnits |-> "none"]
    /\ call = CallRecord("Shader", "", "", NoCodes)
    /\ ret = TRUE
    /\ glLog = <<>>

AllExtensions == [basic : BOOLEAN, geometry : BOOLEAN]
FullExtensions == {[basic |-> TRUE, geometry |-> TRUE]}

(***************************************************************************)
(* Spec: every sequence of public calls of a client that uses one uniform *)
(* name and one texture, on a context with any extension set.  With one   *)
(* texture the unit limit only decides whether that texture is taken, so  *)
(* two limits are told apart: one that leaves no room for it and the      *)
(* largest.  SpecParams below ranges over every limit.                     *)
(***************************************************************************)
OneName == {"u1"}
OneTexture == {"texA"}
UnitLimits == {1, MaxTextureUnits}

Init == InitOn(AllExtensions, UnitLimits)

Next ==
    \/ LoadFromMemory(Sources)
    \/ SetParameterValue(OneName)
    \/ SetParameterTexture(OneName, OneTexture)
    \/ SetParameterCurrentTexture(OneName)
    \/ Bind

Spec == Init /\ [][Next]_vars

(***************************************************************************)
(* SpecParams: every sequence of loads and setParameter calls of a client  *)
(* that loads fragment shaders, uses all of Names and Textures and does    *)
(* not bind, on a context with every shader extension and any texture      *)
(* unit limit.                                                             *)
(***************************************************************************)
InitParams == InitOn(FullExtensions, 0..MaxTextureUnits)

NextParams ==
    \/ LoadFromMemory(FragmentSources)
    \/ SetParameterValue(Names)
    \/ SetParameterTexture(Names, Textures)
    \/ SetParameterCurrentTexture(Names)

SpecParams == InitParams /\ [][NextParams]_vars

(***************************************************************************)
(* SpecBind: every sequence of loads, texture and sentinel sets and binds  *)
(* of a client that loads fragment shaders and uses all of Names and       *)
(* Textures, on a context with any extension set and the largest texture   *)
(* unit limit.                                                             *)
(***************************************************************************)
InitBind == InitOn(AllExtensions, {MaxTextureUnits})

NextBind ==
    \/ LoadFromMemory(FragmentSources)
    \/ SetParameterTexture(Names, Textures)
    \/ SetParameterCurrentTexture(Names)
    \/ Bind
    \/ BindNullThisNull

SpecBind == InitBind /\ [][NextBind]_vars

(***************************************************************************)
(* SpecMixed: the class used next to OpenGL code of the application: loads *)
(* of fragment shaders, value sets and binds, interleaved with the         *)
(* application making a program of its own current, on a context with any  *)
(* extension set.                                                          *)
(***************************************************************************)
InitMixed == InitOn(AllExtensions, {MaxTextureUnits})

NextMixed ==
    \/ LoadFromMemory(FragmentSources)
    \/ SetParameterValue(OneName)
    \/ Bind
    \/ ApplicationUsesProgram

SpecMixed == InitMixed /\ [][NextMixed]_vars

(***************************************************************************)
(* SpecLoad: every sequence of loads from files and streams, with texture  *)
(* and sentinel sets in between, of a client that uses one uniform name    *)
(* and one texture, on a context with every shader extension.              *)
(***************************************************************************)
InitLoad == InitOn(FullExtensions, {MaxTextureUnits})

NextLoad ==
    \/ LoadFromFile
    \/ LoadFromFiles
    \/ LoadFromStream
    \/ LoadFromStreams
    \/ SetParameterTexture(OneName, OneTexture)
    \/ SetParameterCurrentTexture(OneName)

SpecLoad == InitLoad /\ [][NextLoad]_vars

(***************************************************************************)
(* SpecThreads: the threads of a process calling isAvailable, with any     *)
(* mask, and getMaxTextureUnits, in any interleaving of their statements,  *)
(* on a context with any extension set.                                    *)
(***************************************************************************)
InitThreads == InitOn(AllExtensions, {MaxTextureUnits})

NextThreads ==
    \/ ThreadCallsIsAvailable
    \/ ThreadCallsGetMaxTextureUnits
    \/ ThreadStep

SpecThreads == InitThreads /\ [][NextThreads]_vars

(***************************************************************************)
(* SpecLife: instances that are constructed, loaded from memory with any   *)
(* sources, given a sentinel, bound and unbound, and destroyed, one after  *)
(* the other, on a context with any extension set.  No other code creates  *)
(* program objects, so every program object is one an instance created.    *)
(***************************************************************************)
InitLife == InitOn(AllExtensions, {MaxTextureUnits})

NextLife ==
    \/ Alive /\ LoadFromMemory(Sources)
    \/ Alive /\ SetParameterCurrentTexture(OneName)
    \/ Alive /\ Bind
    \/ DestroyShader
    \/ ConstructShader

SpecLife == InitLife /\ [][NextLife]_vars

(***************************************************************************)
(* SpecUnits: every sequence of loads, texture and sentinel sets and binds *)
(* of a client that loads fragment shaders and uses all of Names and       *)
(* Textures, on a context with every shader extension and any texture unit *)
(* limit of at least 1.                                                    *)
(***************************************************************************)
InitUnits == InitOn(FullExtensions, 1..MaxTextureUnits)

NextUnits ==
    \/ LoadFromMemory(FragmentSources)
    \/ SetParameterTexture(Names, Textures)
    \/ SetParameterCurrentTexture(OneName)
    \/ Bind

SpecUnits == InitUnits /\ [][NextUnits]_vars

(***************************************************************************)
(* What the log of the most recent call shows.                             *)
(***************************************************************************)
Events(fn) == {i \in DOMAIN glLog : glLog[i].fn = fn}
ErrLines(text) == {i \in Events("err") : glLog[i].text = text}

IsCompileCall == call.op = "loadFromMemory"
CapabilityRefused == ErrLines("Failed to create a shader") # {}
PassedCapabilityCheck == IsCompileCall /\ ~CapabilityRefused
StageFailed == \E i \in Events("glCompileShader") : glLog[i].a = 0
LinkFailed == \E i \in Events("glLinkProgram") : glLog[i].text = "failed"
LinkSucceeded == \E i \in Events("glLinkProgram") : glLog[i].text = "linked"
CreatedPrograms == {glLog[i].a : i \in Events("glCreateProgramObject")}
HandleWrites == Events("m_shaderProgram=")
\* the call found a program on the instance and deleted it
OldProgramDestroyed == \E i \in HandleWrites : glLog[i].a = 0

(***************************************************************************)
(* C1: a compile call that passes the capability check and in which a      *)
(* stage fails to compile or the link fails returns false and leaves       *)
(* getNativeHandle() == 0, whatever the instance held before; the program  *)
(* object the call created is deleted.                                     *)
(***************************************************************************)
C1_FailedCompileLeavesNoProgram ==
    (PassedCapabilityCheck /\ (StageFailed \/ LinkFailed)) =>
        /\ ret = FALSE
        /\ getNativeHandle(State) = 0
        /\ \A id \in CreatedPrograms : glObjects[id].status = "free"

\* a recompile of an instance that held a program fails at the link
C1_Witness ==
    /\ PassedCapabilityCheck /\ LinkFailed /\ OldProgramDestroyed
    /\ ret = FALSE /\ getNativeHandle(State) = 0

(***************************************************************************)
(* C2: compile returns true exactly when the capability check passes for   *)
(* the mask of the supplied stages, every stage it compiles reports        *)
(* success and the link reports success; the handle is then the nonzero    *)
(* name of the program object this call created, a live linked program,    *)
(* created after the previous one was deleted.                             *)
(***************************************************************************)
C2_CompileSucceedsExactlyWhen ==
    IsCompileCall =>
        /\ ret = (/\ isAvailable(State, ShadersToUse(call.codes[1], call.codes[2],
                                                      call.codes[3]))
                  /\ ~StageFailed
                  /\ LinkSucceeded)
        /\ ret => /\ getNativeHandle(State) # 0
                  /\ CreatedPrograms = {getNativeHandle(State)}
                  /\ glObjects[getNativeHandle(State)].status = "live"
                  /\ glObjects[getNativeHandle(State)].linked
                  /\ \A i \in Events("glDeleteObject"), j \in Events("glCreateProgramObject") :
                        glLog[i].text = "program" => i < j

\* a successful recompile: the old program deleted, a new one stored
C2_Witness ==
    /\ IsCompileCall /\ ret /\ OldProgramDestroyed
    /\ getNativeHandle(State) \in CreatedPrograms

(***************************************************************************)
(* C3 as claimed: when compile is called on an instance that holds a       *)
(* program and the capability check fails, it returns false and the        *)
(* previous program is discarded: handle 0, cache, texture table and       *)
(* sentinel reset.                                                         *)
(***************************************************************************)
C3_CapabilityFailureDiscardsProgram ==
    [][(m_shaderProgram # 0 /\ IsCompileCall' /\ CapabilityRefused') =>
            /\ ret' = FALSE
            /\ m_shaderProgram' = 0
            /\ m_params' = EmptyMap
            /\ m_textures' = EmptyMap
            /\ m_currentTexture' = NotFound]_vars

(***************************************************************************)
(* C3 as amended: when the capability check fails, compile reports the     *)
(* error, returns false and leaves the instance as it was: the handle, the *)
(* program object, the cache, the texture table and the sentinel are       *)
(* unchanged.                                                              *)
(***************************************************************************)
C3_CapabilityFailureKeepsProgram ==
    [][(IsCompileCall' /\ CapabilityRefused') =>
            /\ ret' = FALSE
            /\ \A i \in DOMAIN glLog' :
                  glLog'[i].fn \in {"isAvailable", "checkShadersAvailable", "err"}
            /\ UNCHANGED <<m_shaderProgram, m_params, m_textures, m_currentTexture,
                           glObjects>>]_vars

\* a refused compile on an instance with a program, a cached name, a texture
\* and a sentinel
C3_Witness ==
    /\ IsCompileCall /\ CapabilityRefused /\ ret = FALSE
    /\ m_shaderProgram # 0
    /\ m_params # EmptyMap /\ m_textures # EmptyMap /\ m_currentTexture # NotFound

(***************************************************************************)
(* C4 as claimed: within one compile call the handle is not written        *)
(* (neither cleared nor replaced) until the capability check and the       *)
(* compilation of every supplied stage have completed.                     *)
(***************************************************************************)
C4_HandleWrittenAfterStages ==
    IsCompileCall =>
        \A i \in HandleWrites :
            \A j \in Events("isAvailable") \cup Events("glCompileShader") : j < i

(***************************************************************************)
(* C4 as amended: within one compile call the handle is not written until  *)
(* the capability check has completed; it is cleared to 0 before any stage *)
(* is compiled, and it is replaced by the new program only after every     *)
(* supplied stage has been compiled.                                       *)
(***************************************************************************)
C4_HandleWriteOrder ==
    IsCompileCall =>
        \A i \in HandleWrites :
            /\ \A j \in Events("isAvailable") : j < i
            /\ glLog[i].a = 0 => \A j \in Events("glCompileShader") : i < j
            /\ glLog[i].a # 0 => \A j \in Events("glCompileShader") : j < i

\* a successful recompile with two stages: the handle cleared, then replaced
C4_Witness ==
    /\ IsCompileCall /\ ret
    /\ Cardinality(HandleWrites) = 2
    /\ Cardinality(Events("glCompileShader")) >= 2

(***************************************************************************)
(* C5: between public operations the handle is 0 or names a live program   *)
(* object that was linked successfully.                                    *)
(***************************************************************************)
C5_HandleIsZeroOrLinkedProgram ==
    \/ m_shaderProgram = 0
    \/ /\ m_shaderProgram \in ProgramIds
       /\ glObjects[m_shaderProgram].status = "live"
       /\ glObjects[m_shaderProgram].linked

\* the instance holds a program while the one it replaced, deleted when it was
\* current, still exists
C5_Witness ==
    /\ m_shaderProgram # 0
    /\ \E id \in ProgramIds : glObjects[id].status = "flagged"

(***************************************************************************)
(* C6: after a compile call that got past the capability check the cache,  *)
(* the texture table and the sentinel are empty; so every location the     *)
(* instance holds (cache, texture table, sentinel) was resolved against    *)
(* the program it holds now.                                               *)
(***************************************************************************)
HeldLocationsAreCurrent ==
    /\ \A n \in DOMAIN m_params :
          /\ IsLinkedProgram(State, m_shaderProgram)
          /\ n \in DOMAIN glObjects[m_shaderProgram].uniforms
          /\ glObjects[m_shaderProgram].uniforms[n] = m_params[n]
    /\ \A l \in DOMAIN m_textures : \E n \in DOMAIN m_params : m_params[n] = l
    /\ m_currentTexture # NotFound =>
          \E n \in DOMAIN m_params : m_params[n] = m_currentTexture

C6_CompileResetsCaches ==
    /\ PassedCapabilityCheck =>
          m_params = EmptyMap /\ m_textures = EmptyMap /\ m_currentTexture = NotFound
    /\ HeldLocationsAreCurrent

\* a compile that dropped a cached name and a texture binding
C6_Witness ==
    /\ PassedCapabilityCheck
    /\ \E i \in Events("m_params.clear") : glLog[i].a > 0
    /\ \E i \in Events("m_textures.clear") : glLog[i].a > 0
    /\ m_params = EmptyMap /\ m_textures = EmptyMap

(***************************************************************************)
(* The setParameter calls, as steps: the unprimed variables are the state  *)
(* the call found, the primed ones the state it left, glLog' what it did.  *)
(***************************************************************************)
SetOps == {"setParameter", "setParameterTexture", "setParameterCurrentTexture"}
\* a step that is a setParameter call on an instance with a program
IsSetStep == call'.op \in SetOps /\ m_shaderProgram # 0
QueriesIn(log, name) ==
    {i \in DOMAIN log : log[i].fn = "glGetUniformLocation" /\ log[i].text = name}
ErrLinesIn(log, text) == {i \in DOMAIN log : log[i].fn = "err" /\ log[i].text = text}
WritesIn(log) ==
    {i \in DOMAIN log : log[i].fn \in UniformSetters \cup
                            {"glUniform1i", "m_textures.insert", "m_textures.replace"}}
\* the location the call resolved its name to
Resolved(params, name) == IF name \in DOMAIN params THEN params[name] ELSE NotFound
Keeps(old, new) == \A k \in DOMAIN old : k \in DOMAIN new /\ new[k] = old[k]

(***************************************************************************)
(* C7: between two recompiles getParamLocation(name) is idempotent: the    *)
(* first call for a name asks the backend once and caches the reply, found *)
(* or not; every later call asks nothing, changes nothing in the cache and *)
(* yields the cached value; only a compile drops a cached entry.           *)
(***************************************************************************)
C7_ResolveLocationIdempotent ==
    [][/\ IsSetStep =>
            LET n == call'.name IN
            /\ n \in DOMAIN m_params'
            /\ Keeps(m_params, m_params')
            /\ DOMAIN m_params' = DOMAIN m_params \cup {n}
            /\ n \in DOMAIN m_params => QueriesIn(glLog', n) = {}
            /\ n \notin DOMAIN m_params =>
                  /\ Cardinality(QueriesIn(glLog', n)) = 1
                  /\ \A i \in QueriesIn(glLog', n) : glLog'[i].b = Resolved(m_params', n)
            /\ call'.op = "setParameterCurrentTexture" =>
                  m_currentTexture' = Resolved(m_params', n)
            /\ call'.op = "setParameter" =>
                  \A i \in DOMAIN glLog' :
                      glLog'[i].fn \in UniformSetters => glLog'[i].a = Resolved(m_params', n)
       /\ ~IsCompileCall' => Keeps(m_params, m_params')]_vars

\* a call on a cached name: no query, the value of the first call
C7_Witness ==
    /\ call.op = "setParameterCurrentTexture" /\ m_shaderProgram # 0
    /\ QueriesIn(glLog, call.name) = {}
    /\ m_currentTexture = Resolved(m_params, call.name)
    /\ m_currentTexture # NotFound

(***************************************************************************)
(* C8: for a name the program does not declare the warning is written by   *)
(* the first setParameter call for it after a compile and by no later      *)
(* one: a later call of any overload writes no err line, issues no uniform *)
(* write and adds no texture binding; the cached miss lasts until a        *)
(* compile gets past the capability check.                                 *)
(***************************************************************************)
C8_MissingUniformWarnedOnce ==
    [][/\ IsSetStep =>
            LET n == call'.name
                warned == ErrLinesIn(glLog', "Parameter not found in shader")
            IN  /\ (n \notin DOMAIN m_params /\ Resolved(m_params', n) = NotFound) =>
                      Cardinality(warned) = 1
                /\ Resolved(m_params', n) # NotFound => warned = {}
                /\ (n \in DOMAIN m_params /\ m_params[n] = NotFound) =>
                      /\ Events("err")' = {}
                      /\ WritesIn(glLog') = {}
                      /\ m_textures' = m_textures
                      /\ m_params' = m_params
       /\ \A k \in DOMAIN m_params :
            m_params[k] = NotFound =>
                \/ Resolved(m_params', k) = NotFound /\ k \in DOMAIN m_params'
                \/ PassedCapabilityCheck']_vars

\* a texture set for a name whose miss is cached: nothing happens
C8_Witness ==
    /\ call.op = "setParameterTexture" /\ m_shaderProgram # 0
    /\ call.name \in DOMAIN m_params /\ m_params[call.name] = NotFound
    /\ glLog = <<>>
    /\ m_textures # EmptyMap

(***************************************************************************)
(* C9: with texture-unit limit L, a texture set on a found location that   *)
(* is not in the table is accepted exactly when size + 1 < L; otherwise    *)
(* the error is written and the table is left as it was.  So with          *)
(* L = N + 1 the table takes N entries and refuses the next.               *)
(***************************************************************************)
C9_TextureAcceptedBelowLimit ==
    [][(/\ IsSetStep /\ call'.op = "setParameterTexture"
        /\ Resolved(m_params', call'.name) # NotFound
        /\ Resolved(m_params', call'.name) \notin DOMAIN m_textures) =>
            LET location == Resolved(m_params', call'.name)
                refused == ErrLinesIn(glLog', "all available texture units are used")
            IN  IF Size(m_textures) + 1 < glMaxCombined
                THEN /\ m_textures' = MapPut(m_textures, location, call'.texture)
                     /\ refused = {}
                ELSE /\ m_textures' = m_textures
                     /\ refused # {}]_vars

\* L = N + 1 with N >= 1 entries in the table: the call for one more name is
\* refused
C9_Witness ==
    /\ call.op = "setParameterTexture"
    /\ ErrLinesIn(glLog, "all available texture units are used") # {}
    /\ Size(m_textures) >= 1
    /\ glMaxCombined = Size(m_textures) + 1
    /\ Resolved(m_params, call.name) \notin DOMAIN m_textures

(***************************************************************************)
(* C10: a texture set on a name whose location is in the table replaces    *)
(* the stored texture by the new one and leaves the rest of the table,     *)
(* and so its size, as it was; it is not refused when the table is full.   *)
(***************************************************************************)
C10_TextureReplacedInPlace ==
    [][(/\ IsSetStep /\ call'.op = "setParameterTexture"
        /\ Resolved(m_params', call'.name) \in DOMAIN m_textures) =>
            LET location == Resolved(m_params', call'.name)
            IN  /\ m_textures' = [m_textures EXCEPT ![location] = call'.texture]
                /\ Events("err")' = {}]_vars

\* a full table, one of whose textures has just been replaced by another
C10_Witness ==
    /\ call.op = "setParameterTexture"
    /\ Size(m_textures) + 1 >= glMaxCombined
    /\ \E i \in Events("m_textures.replace") :
          /\ glLog[i].text # call.texture
          /\ m_textures[glLog[i].a] = call.texture

\* a step that is a texture set refused for want of a texture unit
IsRefusedTextureStep ==
    /\ call'.op = "setParameterTexture"
    /\ ErrLinesIn(glLog', "all available texture units are used") # {}

(***************************************************************************)
(* C11 as stated: a texture set refused because the texture-unit budget    *)
(* would be exceeded leaves the program handle, the texture table, the     *)
(* sentinel, the uniform cache and the active program as they were.        *)
(***************************************************************************)
C11_RefusedTextureChangesNothing ==
    [][IsRefusedTextureStep =>
            UNCHANGED <<m_shaderProgram, m_textures, m_currentTexture, m_params,
                        glCurrentProgram>>]_vars

(***************************************************************************)
(* C11, amended: a texture set refused because the texture-unit budget     *)
(* would be exceeded leaves the program handle, the texture table, the     *)
(* sentinel and the active program as they were; the uniform cache keeps   *)
(* its entries and gains the location of the call's name when that name    *)
(* was not cached before the call.                                         *)
(***************************************************************************)
C11_RefusedTextureKeepsAllButCache ==
    [][IsRefusedTextureStep =>
            /\ UNCHANGED <<m_shaderProgram, m_textures, m_currentTexture,
                           glCurrentProgram>>
            /\ Keeps(m_params, m_params')
            /\ DOMAIN m_params' = DOMAIN m_params \cup {call'.name}
            /\ Resolved(m_params', call'.name) # NotFound]_vars

\* a refused texture set that resolved its name in the same call, on an
\* instance that holds a texture
C11_Witness ==
    /\ call.op = "setParameterTexture"
    /\ ErrLinesIn(glLog, "all available texture units are used") # {}
    /\ \E i \in Events("m_params.insert") : glLog[i].text = call.name
    /\ m_textures # EmptyMap

\* the texture units the last call assigned to the uniform at location
AssignedUnits(location) ==
    {glLog[i].b : i \in {j \in Events("glUniform1i") : glLog[j].a = location}}

(***************************************************************************)
(* C12 as stated: in every reachable state the location held as the        *)
(* current-texture sentinel is not a key of the texture table, and a bind  *)
(* call assigns no uniform both unit 0 and a unit >= 1.                    *)
(***************************************************************************)
C12_SentinelNeverInTable ==
    /\ m_currentTexture # NotFound => m_currentTexture \notin DOMAIN m_textures
    /\ call.op = "bind" =>
          \A i \in Events("glUniform1i") :
              ~(0 \in AssignedUnits(glLog[i].a) /\ AssignedUnits(glLog[i].a) # {0})

\* a step that is Shader::bind(&shader) on a compiled program, shaders available
IsBindThisStep ==
    /\ call'.op = "bind" /\ call'.name = "this"
    /\ m_shaderProgram # 0
    /\ vertexShaderAvailable' /\ fragmentShaderAvailable'
\* the place of key k among the keys of table m, counted from 1
Rank(m, k) == Cardinality({j \in DOMAIN m : j <= k})
HasEvent(log, fn, text, a, b) == \E i \in DOMAIN log : log[i] = Ev(fn, text, a, b)

(***************************************************************************)
(* C13: bind on a compiled program, with shaders available, makes the      *)
(* instance's program the current one, assigns the i-th entry of the       *)
(* texture table (in ascending location order, i from 1) unit i and binds  *)
(* its texture to unit i, assigns unit 0 to the sentinel location when one *)
(* is set, and returns with texture unit 0 active.                         *)
(***************************************************************************)
C13_BindAssignsUnitsInOrder ==
    [][IsBindThisStep =>
            /\ glCurrentProgram' = m_shaderProgram
            /\ \A k \in DOMAIN m_textures :
                  /\ HasEvent(glLog', "glUniform1i", "", k, Rank(m_textures, k))
                  /\ HasEvent(glLog', "Texture::bind", m_textures[k], Rank(m_textures, k), 0)
                  /\ glTextureUnits'[Rank(m_textures, k)] = m_textures[k]
            /\ Cardinality({glLog'[i].b : i \in {j \in DOMAIN glLog' :
                                glLog'[j].fn = "glUniform1i" /\ glLog'[j].b # 0}})
                  = Size(m_textures)
            /\ m_currentTexture # NotFound =>
                  HasEvent(glLog', "glUniform1i", "", m_currentTexture, 0)
            /\ glActiveTexture' = 0
            /\ UNCHANGED <<m_shaderProgram, m_textures, m_currentTexture, m_params>>]_vars

\* a bind of a program with two textures and the sentinel: units 1 and 2 hold
\* the two textures
C13_Witness ==
    /\ call.op = "bind" /\ call.name = "this"
    /\ glCurrentProgram = m_shaderProgram /\ m_shaderProgram # 0
    /\ Size(m_textures) = 2
    /\ m_currentTexture # NotFound
    /\ Cardinality(Events("Texture::bind")) = 2
    /\ glTextureUnits[1] # glTextureUnits[2]
    /\ glActiveTexture = 0

(***************************************************************************)
(* C14: for a compiled program with any number of texture bindings,        *)
(* bind(NULL); bind(&shader); bind(NULL) ends with texture unit 0 active   *)
(* and no program current.                                                 *)
(***************************************************************************)
C14_UnbindBindUnbind ==
    [][(call'.op = "bind" /\ call'.name = "NULL;this;NULL" /\ m_shaderProgram # 0) =>
            glActiveTexture' = 0 /\ glCurrentProgram' = 0]_vars

\* the sequence run on a program with two textures, both bound on the way
C14_Witness ==
    /\ call.op = "bind" /\ call.name = "NULL;this;NULL"
    /\ m_shaderProgram # 0
    /\ Size(m_textures) = 2
    /\ Cardinality(Events("Texture::bind")) = 2
    /\ Cardinality(Events("glUseProgramObject")) = 3
    /\ glActiveTexture = 0 /\ glCurrentProgram = 0

IsUnbindStep == call'.op = "bind" /\ call'.name = "NULL"

(***************************************************************************)
(* C15 as stated: from every prior state, whatever the capability flags    *)
(* are, no program is current when bind(NULL) returns.                     *)
(***************************************************************************)
C15_UnbindAlwaysDeactivates ==
    [][IsUnbindStep => glCurrentProgram' = 0]_vars

(***************************************************************************)
(* C15, amended: bind(NULL) leaves no program current when the capability  *)
(* probe reports vertex and fragment shaders available; when it does not,  *)
(* bind(NULL) writes the error, makes no backend call and leaves the       *)
(* current program as it was.                                              *)
(***************************************************************************)
C15_UnbindDeactivatesWhenAvailable ==
    [][IsUnbindStep =>
            IF vertexShaderAvailable' /\ fragmentShaderAvailable'
            THEN glCurrentProgram' = 0 /\ Events("err")' = {}
            ELSE /\ ErrLinesIn(glLog', "Failed to bind or unbind shader") # {}
                 /\ \A i \in DOMAIN glLog' : glLog'[i].fn # "glUseProgramObject"
                 /\ UNCHANGED <<glCurrentProgram, glObjects>>]_vars

\* bind(NULL) has returned and a program is still current
C15_Witness ==
    /\ call.op = "bind" /\ call.name = "NULL"
    /\ ErrLines("Failed to bind or unbind shader") # {}
    /\ glCurrentProgram # 0

\* Shader::bind(&shader) has just enabled the instance's program
BoundThis ==
    /\ call.op = "bind" /\ call.name = "this"
    /\ m_shaderProgram # 0 /\ glCurrentProgram = m_shaderProgram
\* the texture units that hold a texture
PopulatedUnits == {u \in DOMAIN glTextureUnits : glTextureUnits[u] # "none"}

(***************************************************************************)
(* C16 as stated: when bind(&shader) returns, the texture units holding a  *)
(* texture bound by the class are those of the program's table, units up   *)
(* to count(m_textures): no unit above the count holds a texture bound for *)
(* a program enabled earlier.                                              *)
(***************************************************************************)
C16_OnlyTableUnitsPopulated ==
    BoundThis => PopulatedUnits \subseteq 0..Size(m_textures)

(***************************************************************************)
(* C16, amended: when bind(&shader) returns, units 1..count(m_textures)    *)
(* hold the textures of the program's table; the units above the count are *)
(* not touched and hold what they held before the call, which may be a     *)
(* texture bound for a program enabled earlier.                            *)
(***************************************************************************)
C16_UnitsAboveCountUntouched ==
    [][IsBindThisStep =>
            /\ \A k \in DOMAIN m_textures :
                  glTextureUnits'[Rank(m_textures, k)] = m_textures[k]
            /\ \A u \in DOMAIN glTextureUnits :
                  (u > Size(m_textures) \/ u = 0) => glTextureUnits'[u] = glTextureUnits[u]
            /\ \A i \in DOMAIN glLog' :
                  glLog'[i].fn = "Texture::bind" => glLog'[i].a \in 1..Size(m_textures)]_vars

\* a program with one texture is enabled and unit 2 still holds a texture
C16_Witness ==
    /\ BoundThis
    /\ Size(m_textures) = 1
    /\ Cardinality(Events("Texture::bind")) = 1
    /\ glTextureUnits[2] # "none"

(***************************************************************************)
(* C17 as stated: a setParameter call of a value overload (floats, vector, *)
(* colour, matrix) leaves the current program unchanged: the program (or   *)
(* none) that was current before the call is current after it, whether the *)
(* uniform was found or not and whether or not the instance has a program. *)
(***************************************************************************)
C17_SetParameterRestoresProgram ==
    [][call'.op = "setParameter" => glCurrentProgram' = glCurrentProgram]_vars

\* a step that is a call of one of the loaders that read their sources
LoaderOps == {"loadFromFile", "loadFromFiles", "loadFromStream", "loadFromStreams"}
IsLoaderStep == call'.op \in LoaderOps
LoadErrors ==
    {"Failed to open shader file", "Failed to open vertex shader file",
     "Failed to open geometry shader file", "Failed to open fragment shader file",
     "Failed to read shader from stream", "Failed to read vertex shader from stream",
     "Failed to read geometry shader from stream",
     "Failed to read fragment shader from stream"}
LoadErrLinesIn(log) == {i \in DOMAIN log : log[i].fn = "err" /\ log[i].text \in LoadErrors}
\* compile starts with the isAvailable test
CompileCalledIn(log) == \E i \in DOMAIN log : log[i].fn = "isAvailable"
\* the sources of the call that are of one of the given kinds
SourcesAmong(c, kinds) == {i \in 1..3 : c.codes[i] \in kinds}

C19_EveryReadFailureAborts ==
    [][(IsLoaderStep /\ SourcesAmong(call', {"unopenable", "unsizable", "size error",
                                             "short read", "read error"}) # {}) =>
            /\ ret' = FALSE
            /\ LoadErrLinesIn(glLog') # {}
            /\ ~CompileCalledIn(glLog')]_vars

\* a compile call with a geometry source and no vertex source
GeometryOnlyCall == IsCompileCall /\ call.codes[1] = NoCode /\ call.codes[2] # NoCode
StageCreations(stage) == {i \in Events("glCreateShaderObject") : glLog[i].text = stage}

(***************************************************************************)
(* C20: a compile call with a geometry source and no vertex source (the    *)
(* fragment source optional).  When geometry shaders are reported          *)
(* unavailable it fails with the capability error and creates no program   *)
(* and no stage object.  When the stages it asks for are reported          *)
(* available it compiles a default vertex stage before the geometry stage  *)
(* and returns true exactly when every stage compiles and the link         *)
(* succeeds.                                                               *)
(***************************************************************************)
C20_GeometryOnlyCompile ==
    GeometryOnlyCall =>
        /\ ~geometryShaderAvailable =>
              /\ ret = FALSE /\ CapabilityRefused
              /\ Events("glCreateProgramObject") = {}
              /\ Events("glCreateShaderObject") = {}
        /\ (geometryShaderAvailable /\ (call.codes[3] = NoCode \/ fragmentShaderAvailable)) =>
              /\ PassedCapabilityCheck
              /\ Cardinality(StageCreations("vertex")) = 1
              /\ \A i \in StageCreations("vertex"), j \in StageCreations("geometry") : i < j
              /\ ret = TRUE <=> (~StageFailed /\ LinkSucceeded)
              /\ ret = TRUE => StageCreations("geometry") # {} /\ m_shaderProgram \in CreatedPrograms

\* a geometry source alone has been compiled, behind a default vertex stage
C20_Witness ==
    /\ GeometryOnlyCall /\ call.codes[3] = NoCode
    /\ ret = TRUE
    /\ StageCreations("vertex") # {} /\ StageCreations("geometry") # {}
    /\ StageCreations("fragment") = {}
    /\ m_shaderProgram # 0

\* the lines at which a thread is inside the capability probe, and those at
\* which it is about to read an availability flag
ProbeLines == {"137", "138", "139", "141"}
FlagReadLines == {"608", "611", "614"}
\* the thread has returned from isAvailable and holds the value it got
ReturnedFromIsAvailable(t) == threads[t].fn = "isAvailable" /\ threads[t].pc = "idle"

(***************************************************************************)
(* C21: under every interleaving of threads calling isAvailable and        *)
(* getMaxTextureUnits, the capability probe and the limit query each run   *)
(* at most once in the process; no thread reads an availability flag       *)
(* before the probe has written all three; and isAvailable(mask) returns   *)
(* the same value for the same mask on every call, whichever thread called *)
(* first.                                                                  *)
(***************************************************************************)
C21_ProbedOnceUnderAnyInterleaving ==
    /\ Cardinality(Events("checkShadersAvailable")) <= 1
    /\ Cardinality(Events("glGetIntegerv")) <= 1
    /\ \A t \in Threads :
          threads[t].pc \in FlagReadLines =>
              /\ available.init
              /\ \A u \in Threads : threads[u].pc \notin ProbeLines
    /\ \A t \in Threads :
          ReturnedFromIsAvailable(t) =>
              /\ threads[t].ret =
                    \A stage \in threads[t].shaderTypes :
                        IF stage = "geometry" THEN glExtensions.geometry
                        ELSE glExtensions.basic
              /\ \A u \in Threads :
                    (ReturnedFromIsAvailable(u)
                        /\ threads[u].shaderTypes = threads[t].shaderTypes) =>
                            threads[u].ret = threads[t].ret

\* one thread waits for the mutex in isAvailable while the other, which took
\* it first, is inside the probe with one flag written
C21_Witness ==
    /\ threads[1].pc = "603"
    /\ threads[2].pc = "138"
    /\ mutex = 2
    /\ ~available.init

(***************************************************************************)
(* C22: isAvailable(mask) returns true exactly when every stage named in   *)
(* the mask has its availability flag true, so an empty mask yields true;  *)
(* a compile call is refused exactly when its mask names a stage whose     *)
(* flag is false.  The vertex and fragment flags are always equal, both    *)
(* being the one combined check of the basic extensions; the geometry flag *)
(* is the geometry extension alone, whatever the combined check gives.     *)
(***************************************************************************)
C22_AvailableIffEveryStageFlagged ==
    LET probed == isAvailableState(State)
        flag == [stage \in Stages |->
                    IF stage = "vertex" THEN probed.vertexShaderAvailable
                    ELSE IF stage = "fragment" THEN probed.fragmentShaderAvailable
                    ELSE probed.geometryShaderAvailable]
    IN  /\ \A mask \in SUBSET Stages :
              isAvailable(State, mask) = \A stage \in mask : flag[stage]
        /\ isAvailable(State, {})
        /\ IsCompileCall =>
              (CapabilityRefused <=>
                  \E stage \in ShadersToUse(call.codes[1], call.codes[2], call.codes[3]) :
                      ~flag[stage])
        /\ vertexShaderAvailable = fragmentShaderAvailable
        /\ available.init =>
              /\ vertexShaderAvailable = glExtensions.basic
              /\ geometryShaderAvailable = glExtensions.geometry

\* the probe found geometry shaders without the basic stages, and a compile
\* call that names a fragment and a geometry source has been refused
C22_Witness ==
    /\ available.init
    /\ geometryShaderAvailable /\ ~vertexShaderAvailable /\ ~fragmentShaderAvailable
    /\ IsCompileCall /\ CapabilityRefused
    /\ ShadersToUse(call.codes[1], call.codes[2], call.codes[3]) = {"geometry", "fragment"}
    /\ isAvailable(State, {"geometry"}) /\ ~isAvailable(State, {"fragment"})

\* the stages in the order of the blocks of compile
StageOrder == <<"vertex", "geometry", "fragment">>
\* the place in the log of the events of one kind for one stage
StageEvents(fn, stage) == {i \in Events(fn) : glLog[i].text = stage}

(***************************************************************************)
(* C23: within one compile call the stages are processed in the order      *)
(* vertex, geometry, fragment: each stage is created, compiled and, when   *)
(* it compiled, attached before the next stage is created.  The first      *)
(* stage whose compile status is failure ends the attempt: no later stage  *)
(* object is created, the link is not attempted and the call returns       *)
(* false.  The link is attempted, once, only after every stage of the call *)
(* (the sources supplied, and the default vertex stage of a geometry       *)
(* source without a vertex source) has compiled and been attached.         *)
(***************************************************************************)
C23_StagesInOrderStopAtFirstFailure ==
    PassedCapabilityCheck =>
        LET built == [k \in 1..3 |->
                         IF k = 1
                         THEN call.codes[1] # NoCode \/ call.codes[2] # NoCode
                         ELSE call.codes[k] # NoCode]
            failed == {k \in 1..3 :
                          \E i \in StageEvents("glCompileShader", StageOrder[k]) :
                              glLog[i].a = 0}
        IN  /\ \A k \in 1..3 :
                  /\ Cardinality(StageEvents("glCreateShaderObject", StageOrder[k])) <= 1
                  /\ ~built[k] => StageEvents("glCreateShaderObject", StageOrder[k]) = {}
            /\ \A j, k \in 1..3 :
                  j < k =>
                      \A a \in StageEvents("glCreateShaderObject", StageOrder[j]) \cup
                               StageEvents("glCompileShader", StageOrder[j]) \cup
                               StageEvents("glAttachObject", StageOrder[j]),
                         b \in StageEvents("glCreateShaderObject", StageOrder[k]) : a < b
            /\ \A k \in failed :
                  /\ ret = FALSE
                  /\ Events("glLinkProgram") = {}
                  /\ StageEvents("glAttachObject", StageOrder[k]) = {}
                  /\ \A j \in 1..3 :
                        j > k => StageEvents("glCreateShaderObject", StageOrder[j]) = {}
            /\ failed = {} =>
                  /\ Cardinality(Events("glLinkProgram")) = 1
                  /\ \A k \in 1..3 :
                        built[k] =>
                            /\ Cardinality(StageEvents("glAttachObject", StageOrder[k])) = 1
                            /\ \A a \in StageEvents("glCompileShader", StageOrder[k]) \cup
                                        StageEvents("glAttachObject", StageOrder[k]),
                                  l \in Events("glLinkProgram") : a < l
            /\ Events("glLinkProgram") # {} => failed = {}

\* three sources were supplied and the geometry stage, the second, failed:
\* the vertex stage is attached, no fragment stage was created, no link
C23_Witness ==
    /\ PassedCapabilityCheck
    /\ call.codes[1] # NoCode /\ call.codes[2] # NoCode /\ call.codes[3] # NoCode
    /\ StageEvents("glAttachObject", "vertex") # {}
    /\ \E i \in StageEvents("glCompileShader", "geometry") : glLog[i].a = 0
    /\ StageEvents("glCreateShaderObject", "fragment") = {}
    /\ Events("glLinkProgram") = {}
    /\ ret = FALSE

(***************************************************************************)
(* C24 as stated: the capability check covers every stage compile goes on  *)
(* to build.  Whenever a compile call creates a vertex, geometry or        *)
(* fragment stage object, the default vertex stage of a geometry source    *)
(* without a vertex source included, the probe has reported that stage     *)
(* available; and when a stage the call would compile is unavailable, the  *)
(* call aborts before it creates any backend object.                       *)
(***************************************************************************)
C24_CapabilityCoversEveryStageBuilt ==
    IsCompileCall =>
        LET flag == [stage \in Stages |->
                        IF stage = "vertex" THEN vertexShaderAvailable
                        ELSE IF stage = "fragment" THEN fragmentShaderAvailable
                        ELSE geometryShaderAvailable]
            toCompile == ShadersToUse(call.codes[1], call.codes[2], call.codes[3]) \cup
                         (IF call.codes[2] # NoCode THEN {"vertex"} ELSE {})
        IN  /\ \A stage \in Stages :
                  StageEvents("glCreateShaderObject", stage) # {} => flag[stage]
            /\ (\E stage \in toCompile : ~flag[stage]) =>
                  /\ Events("glCreateProgramObject") = {}
                  /\ Events("glCreateShaderObject") = {}

\* the program objects that exist and have not been deleted
LivePrograms == {id \in ProgramIds : glObjects[id].status = "live"}
\* the program objects the last call deleted
DeletedPrograms == {glLog[i].a : i \in StageEvents("glDeleteObject", "program")}

(***************************************************************************)
(* C25: no backend object leaks over any sequence of compile calls and     *)
(* destructions.  Every stage object a compile call creates is deleted     *)
(* before the call returns; every program object a call creates is deleted *)
(* in that call unless it is the handle the call stored; while an instance *)
(* exists the only program object not deleted is the one named by its      *)
(* nonzero handle; after the destructor none is.  (A program deleted while *)
(* it is current stays in the backend, flagged for deletion, until another *)
(* program becomes current.)                                               *)
(***************************************************************************)
C25_NoBackendObjectLeaks ==
    /\ \A stage \in Stages :
          /\ Cardinality(StageEvents("glCreateShaderObject", stage))
                = Cardinality(StageEvents("glDeleteObject", stage))
          /\ \A i \in StageEvents("glCreateShaderObject", stage) :
                \E j \in StageEvents("glDeleteObject", stage) : i < j
    /\ IsCompileCall =>
          \A id \in CreatedPrograms : id \in DeletedPrograms \/ id = m_shaderProgram
    /\ Alive => LivePrograms = {m_shaderProgram} \ {0}
    /\ ~Alive => LivePrograms = {}
    /\ \A id \in ProgramIds : glObjects[id].status = "flagged" => id = glCurrentProgram

\* an instance that was recompiled while bound has been destroyed: its last
\* program is deleted and no program object is left undeleted
C25_Witness ==
    /\ ~Alive
    /\ m_shaderProgram # 0
    /\ DeletedPrograms = {m_shaderProgram}
    /\ glObjects[m_shaderProgram].status = "free"
    /\ glCurrentProgram # 0 /\ glObjects[glCurrentProgram].status = "flagged"
    /\ LivePrograms = {}

(***************************************************************************)
(* C26: in every state reachable by loads, setParameter calls and binds,   *)
(* an instance whose handle is 0 has an empty uniform cache, an empty      *)
(* texture table and no sentinel location; and a setParameter call of any  *)
(* overload on an instance without a program changes nothing, on the       *)
(* instance or in the backend, and asks the backend nothing.               *)
(***************************************************************************)
C26_NoProgramNoState ==
    [][/\ m_shaderProgram = 0 =>
            m_params = EmptyMap /\ m_textures = EmptyMap /\ m_currentTexture = NotFound
       /\ m_shaderProgram' = 0 =>
            m_params' = EmptyMap /\ m_textures' = EmptyMap /\ m_currentTexture' = NotFound
       /\ (call'.op \in SetOps /\ m_shaderProgram = 0) =>
            /\ glLog' = <<>>
            /\ UNCHANGED <<m_shaderProgram, m_params, m_textures, m_currentTexture,
                           maxUnits, glObjects, glCurrentProgram, glActiveTexture,
                           glTextureUnits>>]_vars

\* a texture set on an instance that lost its program, which was bound, to a
\* failed recompile: nothing was asked and nothing is held
C26_Witness ==
    /\ call.op = "setParameterTexture"
    /\ m_shaderProgram = 0
    /\ glLog = <<>>
    /\ \E id \in ProgramIds : glObjects[id].status = "flagged"
    /\ m_params = EmptyMap /\ m_textures = EmptyMap /\ m_currentTexture = NotFound

(***************************************************************************)
(* C27: with a texture unit limit L >= 1, after any sequence of loads and  *)
(* texture sets the texture table holds at most L - 1 entries; so every    *)
(* texture unit a bind call assigns to a uniform, activates or binds a     *)
(* texture to (0 for the sentinel, 1..count for the table) is at most      *)
(* L - 1, a unit the backend has.                                          *)
(***************************************************************************)
C27_TableBelowUnitLimit ==
    glMaxCombined >= 1 =>
        /\ Size(m_textures) <= glMaxCombined - 1
        /\ call.op = "bind" =>
              /\ \A i \in Events("glUniform1i") : glLog[i].b \in 0..(glMaxCombined - 1)
              /\ \A i \in Events("glActiveTexture") :
                    glLog[i].a \in 0..(glMaxCombined - 1) /\ glLog[i].text = ""
              /\ \A i \in Events("Texture::bind") : glLog[i].a \in 1..(glMaxCombined - 1)
        /\ glActiveTexture \in 0..(glMaxCombined - 1)

\* a bind of a program whose table is as full as the limit allows, with two
\* textures or more and the sentinel: the last unit of the backend is used
C27_Witness ==
    /\ call.op = "bind" /\ call.name = "this"
    /\ Size(m_textures) = glMaxCombined - 1
    /\ Size(m_textures) >= 2
    /\ m_currentTexture # NotFound
    /\ \E i \in Events("Texture::bind") : glLog[i].a = glMaxCombined - 1
    /\ \E i \in Events("glUniform1i") : glLog[i].b = 0

(***************************************************************************)
(* C28: setParameter(name, CurrentTexture) on a compiled program always    *)
(* overwrites the sentinel location with the location the name resolves    *)
(* to: for a name the program does not declare the sentinel becomes none,  *)
(* even when it held a found location before; and a bind of an instance    *)
(* whose sentinel is none assigns texture unit 0 to no uniform.            *)
(***************************************************************************)
C28_SentinelAlwaysOverwritten ==
    [][/\ (IsSetStep /\ call'.op = "setParameterCurrentTexture") =>
            /\ m_currentTexture' = Resolved(m_params', call'.name)
            /\ \E i \in DOMAIN glLog' :
                  glLog'[i] = Ev("m_currentTexture=", "", m_currentTexture', m_currentTexture)
            /\ (\E i \in DOMAIN glLog' :
                   glLog'[i].fn = "glGetUniformLocation" /\ glLog'[i].b = NotFound) =>
                      m_currentTexture' = NotFound
       /\ (call'.op = "bind" /\ m_currentTexture = NotFound) =>
            /\ m_currentTexture' = NotFound
            /\ \A i \in DOMAIN glLog' :
                  glLog'[i].fn = "glUniform1i" => glLog'[i].b # 0]_vars

\* the sentinel held a found location and a set for a name the program does
\* not declare has just made it none
C28_Witness ==
    /\ call.op = "setParameterCurrentTexture"
    /\ m_shaderProgram # 0
    /\ m_currentTexture = NotFound
    /\ \E i \in Events("m_currentTexture=") : glLog[i].a = NotFound /\ glLog[i].b # NotFound
    /\ ErrLines("Parameter not found in shader") # {}

====
